---- MODULE Spec2Model ----
(***************************************************************************)
(* MikrotikClient / MikrotikService of server/services/mikrotik.ts as a    *)
(* state machine.  Tasks are invocations of the async service methods.     *)
(* A task is suspended at the I/O boundaries of the RouterOS client: the   *)
(* connect race, the close awaited by disconnect, and a query.  A storage  *)
(* call is atomic.  In connectToDevice and in steps 1 and 2 of             *)
(* collectDeviceMetrics it completes within the step that issues it; in    *)
(* the loops of the sub-collections every awaited storage call is a step   *)
(* of its own.  The RouterOS client library is the environment: it chooses *)
(* the outcome of every open and query call and when a timer fires.        *)
(* discoverDevices (scan), one checkIfMikrotik call (probe) and the field  *)
(* normalizer of executeCommand (san) have their own specifications.       *)
(***************************************************************************)
EXTENDS Integers, Sequences, FiniteSets, TLC

\* ---------------------------------------------------------------- bounds
MaxCalls == 2          \* service calls started in one behaviour

\* two callers of the service that may run concurrently
Tasks == {"A", "B"}

\* ------------------------------------------------------ program constants
Ports == <<8728, 8729, 80, 443>>

StoredIds == {"d1"}                  \* devices the storage knows
DeviceIds == StoredIds \cup {"dx"}   \* "dx": an id storage.getDevice does not find

INFO == "info"
WARNING == "warning"

\* resource records the device may answer with; NullResult is a falsy answer
Snapshots == {[cpuUsage |-> 42, memoryUsage |-> 100], [cpuUsage |-> 7, memoryUsage |-> 200]}
NullResult == [null |-> TRUE]
NoSnap == [none |-> TRUE]
QueryResults == Snapshots \cup {NullResult}

\* answers to "/interface/print" with at least one interface
InterfaceLists ==
  { <<[name |-> "ether1", running |-> TRUE]>>,
    <<[name |-> "ether1", running |-> FALSE]>>,
    <<[name |-> "ether1", running |-> TRUE], [name |-> "ether2", running |-> FALSE]>> }

\* answers to "/interface/wireless/print" with at least one interface
WirelessLists ==
  { <<[name |-> "wlan1", running |-> TRUE]>>,
    <<[name |-> "wlan1", running |-> FALSE]>> }

\* cap.state of a remote CAP; "provisioning" stands for any other state
CapStates == {"running", "disassociated", "disconnected", "provisioning"}

\* answers to "/caps-man/remote-cap/print" with at least one remote CAP
RemoteCapLists == { <<[macAddress |-> "m1", state |-> s]>> : s \in CapStates }

\* no stored record was found
NoRecord == [id |-> 0]

\* the address and the credentials of the stored device
StoredIp == <<10, 0, 0, 1>>
StoredCredentials == [username |-> "admin", password |-> "secret"]

\* the record of the stored device
StoredDevice(online) ==
  [isOnline |-> online, lastSeen |-> 0, hasCAPsMAN |-> FALSE,
   ipAddress |-> StoredIp, username |-> StoredCredentials.username,
   password |-> StoredCredentials.password]

\* no discoverDevices call has been made.  pc: "idle", "probing" (awaiting
\* Promise.all), "u_get" (awaiting getDeviceByIp), "u_put" (awaiting
\* updateDevice or createDevice), "done", "failed".  probed logs the
\* addresses given to checkIfMikrotik, io counts the probes started and the
\* storage calls made, stored the records whose credentials the call wrote.
IdleScan ==
  [pc |-> "idle", subnet |-> <<>>, prefix |-> <<>>, maxHosts |-> 0, batch |-> 0,
   pending |-> {}, found |-> {}, queue |-> <<>>, existing |-> NoRecord,
   count |-> 0, ret |-> -1, probed |-> <<>>, io |-> 0, stored |-> {}]

VARIABLES
  task,      \* Tasks -> the running call and its position
  clients,   \* MikrotikService.clients : device id -> MikrotikClient (0: no entry)
  objs,      \* the MikrotikClient objects created so far
  devices,   \* storage: device id -> record
  metrics,   \* storage: appended MetricSamples
  alerts,    \* storage: appended Alerts
  calls,     \* number of service calls started; it also serves as the clock
  interfaces,          \* storage: InterfaceRecords, the id is the index
  wirelessInterfaces,  \* storage: WirelessInterfaceRecords
  capsmanAPs,          \* storage: CapsmanAP records
  scan,                \* the running discoverDevices call and its position
  san,                 \* a result of the RouterOS client and what is made of it
  probe                \* the running checkIfMikrotik call and its position

\* the tables only the loops of the sub-collections write
tables == <<interfaces, wirelessInterfaces, capsmanAPs>>

vars == <<task, clients, objs, devices, metrics, alerts, calls, tables, scan, san, probe>>

\* ------------------------------------------------------- MikrotikClient
\* Fields of the class: connected, client (TRUE: this.client holds the
\* RouterOSClient of the last connect(), FALSE: null), port (index in Ports).
\* Of the last connect() call: sess is its RouterOSClient, open the promise
\* of its connect(), race the Promise.race, tcur that its setTimeout callback
\* has not fired.  stale says that a setTimeout callback of an earlier
\* connect() has not fired: no timer is ever cleared, all have one delay and
\* so fire in the order they were set, and what the first of the earlier
\* ones does (close this.client, set it to null) the others find done, so
\* they are one event.  late counts the connect()
\* promises of earlier attempts that are still pending, leaked the earlier
\* RouterOSClients dropped without close().  tried logs setPort, results
\* the value each connect() call returned.
NewClient(d) ==
  [dev |-> d, connected |-> FALSE, client |-> FALSE, port |-> 1,
   sess |-> "none", open |-> "none", race |-> "none",
   stale |-> FALSE, tcur |-> FALSE, late |-> 0, leaked |-> 0, tried |-> <<>>,
   results |-> <<>>]

\* setPort(port)
SetPort(o, k) == [o EXCEPT !.port = k, !.tried = Append(@, Ports[k])]

\* connect(): the part that runs before `await Promise.race`
ClientConnect(o) ==
  [o EXCEPT !.client = TRUE,
            !.sess = "opening",
            !.open = "pending",
            !.race = "pending",
            !.stale = @ \/ o.tcur,
            !.tcur = TRUE,
            !.late = IF o.open = "pending" THEN @ + 1 ELSE @,
            !.leaked = IF o.sess \in {"opening", "open"} THEN @ + 1 ELSE @]

\* the .then() of this.client.connect()
OnOpened(o) ==
  [o EXCEPT !.open = "resolved",
            !.sess = IF @ = "opening" THEN "open" ELSE @,
            !.connected = TRUE,
            !.race = IF @ = "pending" THEN "won" ELSE @,
            !.results = IF o.race = "pending" THEN Append(@, TRUE) ELSE @]

\* the .then() of the connect() of an attempt given up earlier
OnLateOpened(o) == [o EXCEPT !.late = @ - 1, !.connected = TRUE]

\* the .catch() of this.client.connect()
OnOpenError(o) ==
  [o EXCEPT !.open = "rejected",
            !.sess = IF @ = "opening" THEN "failed" ELSE @,
            !.race = IF @ = "pending" THEN "lost" ELSE @]

\* the oldest pending timer is the one of the last connect()
OwnTimer(o) == ~o.stale /\ o.tcur

\* the setTimeout callback: closes and drops whatever this.client is now,
\* and rejects the race of its own attempt
OnTimer(o) ==
  [o EXCEPT !.stale = FALSE,
            !.tcur = IF OwnTimer(o) THEN FALSE ELSE @,
            !.sess = IF o.client THEN "closed" ELSE @,
            !.client = FALSE,
            !.race = IF OwnTimer(o) /\ @ = "pending" THEN "lost" ELSE @]

\* the catch block of connect() after the race rejected ; return false
ConnectCatch(o) ==
  [o EXCEPT !.sess = IF o.client THEN "closed" ELSE @,
            !.connected = FALSE,
            !.client = FALSE,
            !.results = Append(@, FALSE)]

\* a disconnect() that does not close the session
DisconnectCloseSkip(o) == o

\* disconnect(): close() is called, the method then awaits it
DisconnectClose(o) == [o EXCEPT !.sess = IF o.client THEN "closed" ELSE @]

\* disconnect(): after the await
DisconnectDone(o) == [o EXCEPT !.client = FALSE, !.connected = FALSE]

\* executeCommand(): can the command be forwarded to this.client ?
CanForward(o) == o.connected /\ o.client

\* executeCommand(): the catch block that rethrows a failed query
ExecuteFailed(o) == [o EXCEPT !.connected = FALSE]


\* ------------------------------------------------------ JavaScript values
\* A value has its typeof in t, with "null", "NaN" and "array" told apart;
\* v of an object maps its keys to values, v of an array is a sequence.  A
\* key is a sequence of one-character strings.
JsUndefined == [t |-> "undefined"]
JsNull == [t |-> "null"]
JsNaN == [t |-> "NaN"]
Js(t, v) == [t |-> t, v |-> v]

\* no result was given to the normalizer yet
IdleSan == [pc |-> "idle", via |-> "none", in |-> JsUndefined, out |-> JsUndefined]

\* no checkIfMikrotik call has been made.  pc: "idle", "p_race" (awaiting
\* connect), "p_res" and "p_id" (awaiting the two queries), "p_close"
\* (awaiting the disconnect of the try block), "p_close_err" (awaiting the one
\* of its catch block), "done".  combo holds the indices of the three loops,
\* cur is the MikrotikClient of the running iteration, resources whether
\* the resource query gave a record.  tried logs the combinations connect()
\* was called with, sessions what became of the session of each finished
\* iteration, ret is the value returned.
NoDescriptor == [found |-> FALSE, port |-> 0, username |-> "", password |-> ""]

IdleProbe ==
  [pc |-> "idle", combo |-> [port |-> 1, username |-> 1, password |-> 1],
   cur |-> NoRecord, resources |-> FALSE, tried |-> <<>>, sessions |-> <<>>,
   ret |-> NoDescriptor]
\* ------------------------------------------------------------- tasks
\* A task is one invocation of connectToDevice, disconnectFromDevice or
\* collectDeviceMetrics.  pc is the I/O the invocation is suspended at:
\*   c_race   client.connect(10000) of connectToDevice (the Promise.race)
\*   d_close  client.disconnect() of disconnectFromDevice
\*   m_res    "/system/resource/print"
\*   i_q      "/interface/print"
\*   w_q      "/interface/wireless/print"
\*   w_reg    "/interface/wireless/registration-table/print"
\*   cap_q    "/caps-man/interface/print"
\*   rc_q     "/caps-man/remote-cap/print"
\*   i_get, w_get, ap_get   the get... call of a loop of a sub-collection
\*   i_put, w_put, ap_put   its update... or create... call
\*   i_alert, w_alert, ap_alert   its createAlert call
\* m_catch and cap_off are not suspension points: they mark that a throw
\* reached the catch block of collectDeviceMetrics resp. the inner catch block
\* of collectCapsmanStats, which the same step then runs.
\* obj is the MikrotikClient the invocation holds and snap its local
\* `resources`.  The other fields record what the invocation has done so far:
\* entry0 the map entry with a connected session that connectToDevice found
\* when it was called, opens the connect() calls it made, fwd the
\* times the running executeCommand forwarded its command, nq the queries it
\* forwarded, xerr the executeCommand calls that rethrew a failed query, subs
\* the sub-collections it entered, err what made it fail, alog the severities
\* of the alerts it created, nsm the samples it appended, online its last
\* isOnline write.  In the loop of a sub-collection todo is the rest of the
\* answer, its head the element being processed, and prev what `find` gave
\* for it; seen logs what the loops compared and emitted the alerts they
\* created, qlog the queries it forwarded, each named by the pc that awaits
\* its answer.
IdleTask ==
  [op |-> "idle", dev |-> "d1", pc |-> "idle", obj |-> 0,
   ret |-> "none", entry0 |-> 0, opens |-> 0, fwd |-> 0, nq |-> 0, xerr |-> 0,
   subs |-> 0, snap |-> NoSnap, err |-> "none", alog |-> <<>>, nsm |-> 0,
   online |-> "none", todo |-> <<>>, prev |-> NoRecord, seen |-> <<>>,
   emitted |-> <<>>, qlog |-> <<>>]

StartTask(o, d, p, e) ==
  [IdleTask EXCEPT !.op = o, !.dev = d, !.pc = p, !.entry0 = e]

\* the invocation returns r
Done(tr, r) == [tr EXCEPT !.pc = "done", !.ret = r, !.obj = 0, !.fwd = 0]

\* task t starts the invocation tr; what the calls that have returned did
\* is recorded no longer
Begin(t, tr) ==
  [u \in Tasks |-> IF u = t THEN tr ELSE IF task[u].pc = "done" THEN IdleTask ELSE task[u]]

Free(t) == task[t].pc \in {"idle", "done"}

\* executeCommand(): the synchronous part, up to `await this.client.query`.
\* The command is forwarded (waitpc) or the call throws at once (failpc).
Execute(tr, ob, c, waitpc, failpc) ==
  IF CanForward(ob[c])
  THEN [tr EXCEPT !.pc = waitpc, !.obj = c, !.fwd = 1, !.nq = @ + 1,
                  !.qlog = Append(@, waitpc)]
  ELSE [tr EXCEPT !.pc = failpc, !.obj = c, !.fwd = 0,
                  !.err = IF failpc = "m_catch" THEN "execute" ELSE @]

\* collectCapsmanStats up to its first await
StartCaps(tr, ob, cl) ==
  LET tc == [tr EXCEPT !.subs = @ + 1]
  IN IF cl[tr.dev] = 0 THEN Done(tc, "true")
     ELSE Execute(tc, ob, cl[tr.dev], "cap_q", "cap_off")

\* catch blocks of collectWirelessStats that rethrow to collectDeviceMetrics
WirelessCatchRethrow(tr, ob, cl) == [tr EXCEPT !.pc = "m_catch", !.err = "execute"]

\* the catch blocks of collectWirelessStats: the error is logged and
\* collectDeviceMetrics goes on with collectCapsmanStats
WirelessCatch(tr, ob, cl) == StartCaps(tr, ob, cl)

\* collectWirelessStats up to its first await
StartWireless(tr, ob, cl) ==
  LET tw == [tr EXCEPT !.subs = @ + 1]
  IN IF cl[tr.dev] = 0 \/ ~CanForward(ob[cl[tr.dev]]) THEN WirelessCatch(tw, ob, cl)
     ELSE Execute(tw, ob, cl[tr.dev], "w_q", "w_q")

\* collectInterfaceStats up to its first await; a throw is caught and logged
\* and collectDeviceMetrics goes on with collectWirelessStats
StartIface(tr, ob, cl) ==
  LET ti == [tr EXCEPT !.subs = @ + 1]
  IN IF cl[tr.dev] = 0 \/ ~CanForward(ob[cl[tr.dev]]) THEN StartWireless(ti, ob, cl)
     ELSE Execute(ti, ob, cl[tr.dev], "i_q", "i_q")

\* a step 2 whose error is logged and followed by the sub-collections
SnapshotSwallow(tr, e, ob, cl) == StartIface([tr EXCEPT !.err = e], ob, cl)

\* a throw in step 2 of collectDeviceMetrics reaches its catch block
SnapshotThrow(tr, e, ob, cl) == [tr EXCEPT !.pc = "m_catch", !.err = e]

\* storage.updateDevice(id, {isOnline, lastSeen}); seen = 0: lastSeen is not
\* in the update; an unknown id is ignored
MarkDevice(dv, d, online, seen) ==
  IF d \in DOMAIN dv
  THEN [dv EXCEPT ![d].isOnline = online,
                  ![d].lastSeen = IF seen = 0 THEN @ ELSE seen]
  ELSE dv

\* storage.updateDevice(id, {hasCAPsMAN})
MarkCapsman(dv, d, has) ==
  IF d \in DOMAIN dv THEN [dv EXCEPT ![d].hasCAPsMAN = has] ELSE dv

\* createAlert(deviceId, severity, title, message)
AlertOf(d, sev, title) == [dev |-> d, severity |-> sev, source |-> title]

\* an InsertMetric with the two readings exchanged
MetricOfSwapped(d, r) == [dev |-> d, cpuLoad |-> r.memoryUsage, memoryUsed |-> r.cpuUsage]

\* the InsertMetric built from the resource record
MetricOf(d, r) == [dev |-> d, cpuLoad |-> r.cpuUsage, memoryUsed |-> r.memoryUsage]

\* a catch of collectDeviceMetrics that returns false without the update
CollectCatchKeep(S) ==
  [t  |-> Done([S.t EXCEPT !.online = "false"], "false"),
   dv |-> S.dv]

\* The catch blocks a throw of this step has reached.  S is the state the
\* step has produced so far: [t: task record, dv: devices]; the result is the
\* state after the catch block, or S when nothing was thrown.
\* catch of collectDeviceMetrics: updateDevice {isOnline: false}; return false
CollectCatch(S) ==
  [t  |-> Done([S.t EXCEPT !.online = "false"], "false"),
   dv |-> MarkDevice(S.dv, S.t.dev, FALSE, 0)]

\* inner catch of collectCapsmanStats: updateDevice {hasCAPsMAN: false};
\* return, and collectDeviceMetrics returns true
CapsmanCatch(S) ==
  [t  |-> Done(S.t, "true"),
   dv |-> MarkCapsman(S.dv, S.t.dev, FALSE)]

Caught(S) ==
  CASE S.t.pc = "m_catch" -> CollectCatch(S)
    [] S.t.pc = "cap_off" -> CapsmanCatch(S)
    [] OTHER              -> S

\* a connect failure that is stored but raises no alert
ConnectFailureSilent(S, now) ==
  [t  |-> Done([S.t EXCEPT !.err = "connect", !.online = "false"], "false"),
   dv |-> MarkDevice(S.dv, S.t.dev, FALSE, now),
   al |-> S.al]

\* collectDeviceMetrics when connectToDevice returned false: the WARNING
\* alert when the device exists, updateDevice {isOnline: false, lastSeen},
\* return false.  S: [t, dv, al: alerts]
ConnectFailure(S, now) ==
  LET known == S.t.dev \in DOMAIN S.dv
  IN [t  |-> Done([S.t EXCEPT !.err = "connect", !.online = "false",
                              !.alog = IF known THEN Append(@, WARNING) ELSE @],
                  "false"),
      dv |-> MarkDevice(S.dv, S.t.dev, FALSE, now),
      al |-> IF known
             THEN Append(S.al, AlertOf(S.t.dev, WARNING, "Device Connection Failure"))
             ELSE S.al]

\* collectDeviceMetrics when connectToDevice returned true: the client is
\* taken from the map and the resource query starts
ConnectSuccess(S, ob, cl) ==
  IF cl[S.t.dev] = 0 THEN [S EXCEPT !.t = Done(@, "false")]
  ELSE LET C == Caught([t  |-> Execute(S.t, ob, cl[S.t.dev], "m_res", "m_catch"),
                        dv |-> S.dv])
       IN [S EXCEPT !.t = C.t, !.dv = C.dv]

\* connectToDevice returns res to its caller.  S: [t, dv, al]
ConnectReturn(S, res, ob, cl, now) ==
  IF S.t.op = "connect" THEN [S EXCEPT !.t = Done(@, IF res THEN "true" ELSE "false")]
  ELSE IF res THEN ConnectSuccess(S, ob, cl)
  ELSE ConnectFailure(S, now)

\* connectToDevice: the device is not in the storage ; return false
ConnectUnknown(S, ob, cl, now) == ConnectReturn(S, FALSE, ob, cl, now)

\* connectToDevice after a connect() won its race: the client is stored in
\* the map (cl is the map after that), updateDevice {isOnline: true,
\* lastSeen} ; return true
ConnectWon(S, ob, cl, now) ==
  ConnectReturn([S EXCEPT !.t.online = "true",
                          !.dv = MarkDevice(@, S.t.dev, TRUE, now)],
                TRUE, ob, cl, now)

\* connectToDevice after the loop: updateDevice {isOnline: false, lastSeen} ;
\* return false
ConnectLost(S, ob, cl, now) ==
  ConnectReturn([S EXCEPT !.t.online = "false",
                          !.dv = MarkDevice(@, S.t.dev, FALSE, now)],
                FALSE, ob, cl, now)

\* a loop that leaves out the second port
NextPortSkip(k) == IF k = 1 THEN 3 ELSE k + 1

\* the loop of connectToDevice: the port tried after port index k
NextPort(k) == k + 1

\* is there a port left after the current one ?
MorePorts(o) == o.port < Len(Ports)

Racer(c) == {t \in Tasks : task[t].pc = "c_race" /\ task[t].obj = c}

\* ------------------------------------------------------------- Init
Init ==
  /\ task = [t \in Tasks |-> IdleTask]
  /\ clients = [d \in DeviceIds |-> 0]
  /\ objs = <<>>
  /\ devices = [d \in StoredIds |-> StoredDevice(FALSE)]
  /\ metrics = <<>>
  /\ alerts = <<>>
  /\ calls = 0
  /\ interfaces = <<>>
  /\ wirelessInterfaces = <<>>
  /\ capsmanAPs = <<>>
  /\ scan = IdleScan
  /\ san = IdleSan
  /\ probe = IdleProbe

\* --------------------------------------------------- connectToDevice
\* connectToDevice up to its first connect(): getDevice, new MikrotikClient,
\* setPort(8728), connect()
EnterConnect(t, tr) ==
  IF tr.dev \notin DOMAIN devices
  THEN LET R == ConnectUnknown([t |-> tr, dv |-> devices, al |-> alerts],
                               objs, clients, calls')
       IN /\ task' = Begin(t, R.t)
          /\ devices' = R.dv
          /\ alerts' = R.al
          /\ UNCHANGED objs
  ELSE /\ objs' = Append(objs, ClientConnect(SetPort(NewClient(tr.dev), 1)))
       /\ task' = Begin(t, [tr EXCEPT !.pc = "c_race",
                                      !.obj = Len(objs) + 1,
                                      !.opens = @ + 1])
       /\ UNCHANGED <<devices, alerts>>

StartConnect(t, d) ==
  /\ Free(t) /\ calls < MaxCalls
  /\ calls' = calls + 1
  /\ EnterConnect(t, StartTask("connect", d, "c_race",
                                IF clients[d] # 0 /\ CanForward(objs[clients[d]])
                                THEN clients[d] ELSE 0))
  /\ UNCHANGED <<tables, clients, metrics, scan, san, probe>>

\* this.client.connect() of the last attempt resolves; when it wins the race
\* connect() returns true and connectToDevice stores the client in the map
OpenResolve(c) ==
  /\ c \in DOMAIN objs /\ objs[c].open = "pending"
  /\ LET won == objs[c].race = "pending"
         ob  == [objs EXCEPT ![c] = OnOpened(@)]
         cl  == IF won THEN [clients EXCEPT ![objs[c].dev] = c] ELSE clients
     IN /\ objs' = ob
        /\ clients' = cl
        /\ IF won /\ Racer(c) # {}
           THEN LET t == CHOOSE u \in Racer(c) : TRUE
                    R == ConnectWon([t |-> task[t], dv |-> devices, al |-> alerts],
                                    ob, cl, calls)
                IN /\ task' = [task EXCEPT ![t] = R.t]
                   /\ devices' = R.dv
                   /\ alerts' = R.al
           ELSE UNCHANGED <<task, devices, alerts>>
  /\ UNCHANGED <<tables, metrics, calls, scan, san, probe>>

\* this.client.connect() of an attempt given up earlier resolves
LateOpenResolve(c) ==
  /\ c \in DOMAIN objs /\ objs[c].late > 0
  /\ objs' = [objs EXCEPT ![c] = OnLateOpened(@)]
  /\ UNCHANGED <<tables, task, clients, devices, metrics, alerts, calls, scan, san, probe>>

\* connect() returned false on the current port of object c (o: the object
\* after the race was lost and the catch block ran): the next iteration of
\* the loop of connectToDevice, or the code after the loop
AttemptFailed(c, o) ==
  LET t == CHOOSE u \in Racer(c) : TRUE
  IN IF MorePorts(o)
     THEN /\ objs' = [objs EXCEPT ![c] = ClientConnect(SetPort(o, NextPort(o.port)))]
          /\ task' = [task EXCEPT ![t].opens = @ + 1]
          /\ UNCHANGED <<devices, alerts>>
     ELSE LET ob == [objs EXCEPT ![c] = o]
              R == ConnectLost([t |-> task[t], dv |-> devices, al |-> alerts],
                               ob, clients, calls)
          IN /\ objs' = ob
             /\ task' = [task EXCEPT ![t] = R.t]
             /\ devices' = R.dv
             /\ alerts' = R.al

\* this.client.connect() of the running attempt rejects
OpenReject(c) ==
  /\ c \in DOMAIN objs
  /\ objs[c].race = "pending" /\ objs[c].open = "pending"
  /\ AttemptFailed(c, ConnectCatch(OnOpenError(objs[c])))
  /\ UNCHANGED <<tables, clients, metrics, calls, scan, san, probe>>

\* the oldest pending timer of object c fires
TimerFire(c) ==
  /\ c \in DOMAIN objs /\ (objs[c].stale \/ objs[c].tcur)
  /\ IF OwnTimer(objs[c]) /\ objs[c].race = "pending"
     THEN AttemptFailed(c, ConnectCatch(OnTimer(objs[c])))
     ELSE /\ objs' = [objs EXCEPT ![c] = OnTimer(@)]
          /\ UNCHANGED <<task, devices, alerts>>
  /\ UNCHANGED <<tables, clients, metrics, calls, scan, san, probe>>

\* ------------------------------------------------ disconnectFromDevice
\* this.clients.get(deviceId) ; client.disconnect() calls close()
StartDisconnect(t, d) ==
  /\ Free(t) /\ calls < MaxCalls
  /\ calls' = calls + 1
  /\ IF clients[d] = 0
     THEN /\ task' = Begin(t, Done(StartTask("disconnect", d, "idle", 0), "void"))
          /\ UNCHANGED objs
     ELSE /\ objs' = [objs EXCEPT ![clients[d]] = DisconnectClose(@)]
          /\ task' = Begin(t, [StartTask("disconnect", d, "d_close", 0)
                                 EXCEPT !.obj = clients[d]])
  /\ UNCHANGED <<tables, clients, devices, metrics, alerts, scan, san, probe>>

\* client.disconnect() returned ; this.clients.delete(deviceId) ;
\* updateDevice {isOnline: false}
DisconnectClosed(t) ==
  /\ task[t].pc = "d_close"
  /\ objs' = [objs EXCEPT ![task[t].obj] = DisconnectDone(@)]
  /\ clients' = [clients EXCEPT ![task[t].dev] = 0]
  /\ devices' = MarkDevice(devices, task[t].dev, FALSE, 0)
  /\ task' = [task EXCEPT ![t] = Done([@ EXCEPT !.online = "false"], "void")]
  /\ UNCHANGED <<tables, metrics, alerts, calls, scan, san, probe>>

\* ------------------------------------------------ collectDeviceMetrics
\* this.clients.get(deviceId): reuse the entry or call connectToDevice
StartCollect(t, d) ==
  /\ Free(t) /\ calls < MaxCalls
  /\ calls' = calls + 1
  /\ IF clients[d] = 0
     THEN EnterConnect(t, StartTask("collect", d, "c_race", 0))
     ELSE LET R == Caught([t  |-> Execute(StartTask("collect", d, "m_res", 0),
                                          objs, clients[d], "m_res", "m_catch"),
                           dv |-> devices])
          IN /\ task' = Begin(t, R.t)
             /\ devices' = R.dv
             /\ UNCHANGED <<objs, alerts>>
  /\ UNCHANGED <<tables, clients, metrics, scan, san, probe>>

QueryPcs == {"m_res", "i_q", "w_q", "w_reg", "cap_q", "rc_q"}

\* the session the pending query of a task was sent on still answers
Answering(tr) == objs[tr.obj].sess = "open"

\* Step 2 of collectDeviceMetrics once the resource query returned r:
\* updateDevice {..., isOnline: true, lastSeen}, createMetric, and the
\* sub-collections start.  fault names the storage write that throws.
\* S: [t, dv, me: metrics]
Snapshot(S, r, fault, ob, cl, now) ==
  IF r = NullResult THEN [S EXCEPT !.t = SnapshotThrow(@, "snapshot", ob, cl)]
  ELSE IF fault = "updateDevice"
  THEN [S EXCEPT !.t = SnapshotThrow([@ EXCEPT !.snap = r], "storage", ob, cl)]
  ELSE LET dv == MarkDevice(S.dv, S.t.dev, TRUE, now)
           tu == [S.t EXCEPT !.snap = r, !.online = "true"]
       IN IF fault = "createMetric"
          THEN [S EXCEPT !.t = SnapshotThrow(tu, "storage", ob, cl),
                         !.dv = dv]
          ELSE [t  |-> StartIface([tu EXCEPT !.nsm = @ + 1], ob, cl),
                dv |-> dv,
                me |-> Append(S.me, MetricOf(S.t.dev, r))]

StorageFaults == {"none", "updateDevice", "createMetric"}

\* "/system/resource/print" answered with r
ResourceAnswer(t, r, fault) ==
  /\ task[t].pc = "m_res" /\ Answering(task[t])
  /\ LET S == Snapshot([t |-> task[t], dv |-> devices, me |-> metrics],
                       r, fault, objs, clients, calls)
         C == Caught([t |-> S.t, dv |-> S.dv])
     IN /\ task' = [task EXCEPT ![t] = C.t]
        /\ devices' = C.dv
        /\ metrics' = S.me
  /\ UNCHANGED <<tables, clients, objs, alerts, calls, scan, san, probe>>

\* this.client.query rejects: executeCommand marks the client disconnected
\* and rethrows to the catch block of its caller
QueryReject(t) ==
  /\ task[t].pc \in QueryPcs
  /\ LET ob == [objs EXCEPT ![task[t].obj] = ExecuteFailed(@)]
         tr == [task[t] EXCEPT !.xerr = @ + 1]
         nx == CASE tr.pc = "m_res" -> SnapshotThrow(tr, "execute", ob, clients)
                 [] tr.pc = "i_q"   -> StartWireless(tr, ob, clients)
                 [] tr.pc \in {"w_q", "w_reg"} -> WirelessCatch(tr, ob, clients)
                 [] OTHER           -> [tr EXCEPT !.pc = "cap_off"]
         C == Caught([t |-> nx, dv |-> devices])
     IN /\ objs' = ob
        /\ task' = [task EXCEPT ![t] = C.t]
        /\ devices' = C.dv
  /\ UNCHANGED <<tables, clients, metrics, alerts, calls, scan, san, probe>>

\* "/interface/print" answered (no interface in the answer)
IfaceAnswer(t) ==
  /\ task[t].pc = "i_q" /\ Answering(task[t])
  /\ LET C == Caught([t |-> StartWireless(task[t], objs, clients), dv |-> devices])
     IN /\ task' = [task EXCEPT ![t] = C.t]
        /\ devices' = C.dv
  /\ UNCHANGED <<tables, clients, objs, metrics, alerts, calls, scan, san, probe>>

\* "/interface/wireless/print" answered (no wireless interface)
WirelessAnswer(t) ==
  /\ task[t].pc = "w_q" /\ Answering(task[t])
  /\ LET C == Caught([t |-> StartCaps(task[t], objs, clients), dv |-> devices])
     IN /\ task' = [task EXCEPT ![t] = C.t]
        /\ devices' = C.dv
  /\ UNCHANGED <<tables, clients, objs, metrics, alerts, calls, scan, san, probe>>

\* "/caps-man/interface/print" answered; enabled: the answer is not empty.
\* updateDevice {hasCAPsMAN: hasCapsmanEnabled}, then the remote-cap query
CapsAnswer(t, enabled) ==
  /\ task[t].pc = "cap_q" /\ Answering(task[t])
  /\ LET dv == MarkCapsman(devices, task[t].dev, enabled)
         nx == IF ~enabled THEN Done(task[t], "true")
               ELSE Execute(task[t], objs, task[t].obj, "rc_q", "cap_off")
         C == Caught([t |-> nx, dv |-> dv])
     IN /\ task' = [task EXCEPT ![t] = C.t]
        /\ devices' = C.dv
  /\ UNCHANGED <<tables, clients, objs, metrics, alerts, calls, scan, san, probe>>

\* "/caps-man/remote-cap/print" answered (no remote CAP)
RemoteCapAnswer(t) ==
  /\ task[t].pc = "rc_q" /\ Answering(task[t])
  /\ task' = [task EXCEPT ![t] = Done(@, "true")]
  /\ UNCHANGED <<tables, clients, objs, devices, metrics, alerts, calls, scan, san, probe>>

\* ------------------------------------------------------------- Next
\* no call is running: in Spec one caller issues one call after the other
Serial == \A u \in Tasks : Free(u)
Caller == CHOOSE t \in Tasks : TRUE

\* the timer of the running attempt is the next to fire: the environment of
\* SpecPar lets no timer outlive its attempt and no given-up connect() resolve
InTime(c) == c \in DOMAIN objs /\ OwnTimer(objs[c]) /\ objs[c].race = "pending"

Step ==
  \/ \E c \in 1..MaxCalls : OpenResolve(c)
  \/ \E c \in 1..MaxCalls : OpenReject(c)
  \/ \E t \in Tasks : DisconnectClosed(t)
  \/ \E t \in Tasks, r \in QueryResults, f \in StorageFaults : ResourceAnswer(t, r, f)
  \/ \E t \in Tasks : QueryReject(t)
  \/ \E t \in Tasks : IfaceAnswer(t)
  \/ \E t \in Tasks : WirelessAnswer(t)
  \/ \E t \in Tasks, e \in BOOLEAN : CapsAnswer(t, e)
  \/ \E t \in Tasks : RemoteCapAnswer(t)

\* calls one after the other; every timer and every late connect() may fire
Next ==
  \/ \E d \in DeviceIds : Serial /\ StartConnect(Caller, d)
  \/ \E d \in DeviceIds : Serial /\ StartDisconnect(Caller, d)
  \/ \E d \in DeviceIds : Serial /\ StartCollect(Caller, d)
  \/ \E c \in 1..MaxCalls : LateOpenResolve(c)
  \/ \E c \in 1..MaxCalls : TimerFire(c)
  \/ Step

Spec == Init /\ [][Next]_vars

\* two callers whose calls overlap
NextPar ==
  \/ \E t \in Tasks, d \in DeviceIds : StartConnect(t, d)
  \/ \E t \in Tasks, d \in DeviceIds : StartDisconnect(t, d)
  \/ \E t \in Tasks, d \in DeviceIds : StartCollect(t, d)
  \/ \E c \in 1..MaxCalls : InTime(c) /\ TimerFire(c)
  \/ Step

SpecPar == Init /\ [][NextPar]_vars

TypeOK ==
  /\ calls \in 0..MaxCalls
  /\ Len(objs) <= calls
  /\ \A d \in DeviceIds : clients[d] \in 0..Len(objs)


\* ------------------------------------------ loops of the sub-collections
\* existingInterfaces.find((i) => i.name === iface.name) on what
\* storage.getInterfaces(deviceId) returns: the first record, or none
FindInterface(tbl, d, n) ==
  LET hits == {i \in DOMAIN tbl : tbl[i].deviceId = d /\ tbl[i].name = n}
  IN IF hits = {} THEN NoRecord
     ELSE LET i == CHOOSE i \in hits : \A j \in hits : i <= j
          IN [id |-> i, running |-> tbl[i].running]

\* existingAPs.find((ap) => ap.macAddress === cap["mac-address"])
FindAP(tbl, d, m) ==
  LET hits == {i \in DOMAIN tbl : tbl[i].deviceId = d /\ tbl[i].macAddress = m}
  IN IF hits = {} THEN NoRecord
     ELSE LET i == CHOOSE i \in hits : \A j \in hits : i <= j
          IN [id |-> i, state |-> tbl[i].state]

\* newInterface / newWirelessInterface built from an element of the answer
InterfaceOf(d, e) == [deviceId |-> d, name |-> e.name, running |-> e.running]

\* newCapsmanAP built from a remote CAP
CapsmanAPOf(d, cap) == [deviceId |-> d, macAddress |-> cap.macAddress, state |-> cap.state]

\* storage.updateInterface(id, rec) resp. storage.createInterface(rec)
Upsert(tbl, id, rec) == IF id # 0 THEN [tbl EXCEPT ![id] = rec] ELSE Append(tbl, rec)

\* a loop has compared the stored record p with the element e
Saw(tr, tb, k, p, was, now) ==
  [tr EXCEPT !.prev = p,
             !.seen = Append(@, [table |-> tb, key |-> k, found |-> p.id # 0,
                                 was |-> was, now |-> now])]

\* this.createAlert(deviceId, severity, title, ...) of a loop, for key k of table tb
Emit(tr, tb, k, sev) ==
  [tr EXCEPT !.alog = Append(@, sev),
             !.emitted = Append(@, [table |-> tb, key |-> k, severity |-> sev])]

\* the end of the loop body: the next element, or the loop is over ("over")
NextElement(tr, getpc) ==
  LET tn == [tr EXCEPT !.todo = Tail(@), !.prev = NoRecord]
  IN [tn EXCEPT !.pc = IF tn.todo # <<>> THEN getpc ELSE "over"]

\* the task goes on as nx; a throw is handled by the catch block it reaches
Continue(t, nx) ==
  LET C == Caught([t |-> nx, dv |-> devices])
  IN /\ task' = [task EXCEPT ![t] = C.t]
     /\ devices' = C.dv

\* collectInterfaceStats after its loop: collectWirelessStats starts
AfterInterface(t, tr) ==
  Continue(t, IF tr.pc = "over" THEN StartWireless(tr, objs, clients) ELSE tr)

\* collectWirelessStats after its loop: the registration-table query
AfterWireless(t, tr) ==
  Continue(t, IF tr.pc # "over" THEN tr
              ELSE IF CanForward(objs[tr.obj])
                   THEN Execute(tr, objs, tr.obj, "w_reg", "w_reg")
                   ELSE WirelessCatch(tr, objs, clients))

\* collectCapsmanStats after its loop: collectDeviceMetrics returns true
AfterCapsman(t, tr) ==
  Continue(t, IF tr.pc = "over" THEN Done(tr, "true") ELSE tr)

\* "/interface/print" answered with the interfaces l
IfaceListAnswer(t, l) ==
  /\ task[t].pc = "i_q" /\ Answering(task[t])
  /\ task' = [task EXCEPT ![t] = [@ EXCEPT !.pc = "i_get", !.todo = l]]
  /\ UNCHANGED <<tables, clients, objs, devices, metrics, alerts, calls, scan, san, probe>>

\* storage.getInterfaces(deviceId) returned
IfaceGet(t) ==
  /\ task[t].pc = "i_get"
  /\ LET e == Head(task[t].todo)
         p == FindInterface(interfaces, task[t].dev, e.name)
     IN task' = [task EXCEPT ![t] =
                   [Saw(@, "interface", e.name, p,
                        IF p.id # 0 THEN p.running ELSE e.running, e.running)
                    EXCEPT !.pc = "i_put"]]
  /\ UNCHANGED <<tables, clients, objs, devices, metrics, alerts, calls, scan, san, probe>>

\* a loop that raises its alert whenever a record is stored
RunningChangedAlways(p, e) == p.id # 0

\* if (existingInterface.running !== iface.running), under if (existingInterface)
RunningChanged(p, e) == p.id # 0 /\ p.running # e.running

\* storage.updateInterface resp. storage.createInterface returned
IfacePut(t) ==
  /\ task[t].pc = "i_put"
  /\ LET e == Head(task[t].todo)
         p == task[t].prev
     IN /\ interfaces' = Upsert(interfaces, p.id, InterfaceOf(task[t].dev, e))
        /\ IF RunningChanged(p, e)
           THEN /\ task' = [task EXCEPT ![t] = [@ EXCEPT !.pc = "i_alert"]]
                /\ UNCHANGED devices
           ELSE AfterInterface(t, NextElement(task[t], "i_get"))
  /\ UNCHANGED <<wirelessInterfaces, capsmanAPs, clients, objs, metrics, alerts, calls, scan, san, probe>>

\* createAlert "Interface Up" / "Interface Down" returned
IfaceAlert(t) ==
  /\ task[t].pc = "i_alert"
  /\ LET e == Head(task[t].todo)
         sev == IF e.running THEN INFO ELSE WARNING
     IN /\ alerts' = Append(alerts, AlertOf(task[t].dev, sev,
                              IF e.running THEN "Interface Up" ELSE "Interface Down"))
        /\ AfterInterface(t, NextElement(Emit(task[t], "interface", e.name, sev), "i_get"))
  /\ UNCHANGED <<tables, clients, objs, metrics, calls, scan, san, probe>>

\* "/interface/wireless/print" answered with the interfaces l
WirelessListAnswer(t, l) ==
  /\ task[t].pc = "w_q" /\ Answering(task[t])
  /\ task' = [task EXCEPT ![t] = [@ EXCEPT !.pc = "w_get", !.todo = l]]
  /\ UNCHANGED <<tables, clients, objs, devices, metrics, alerts, calls, scan, san, probe>>

\* storage.getWirelessInterfaces(deviceId) returned
WirelessGet(t) ==
  /\ task[t].pc = "w_get"
  /\ LET e == Head(task[t].todo)
         p == FindInterface(wirelessInterfaces, task[t].dev, e.name)
     IN task' = [task EXCEPT ![t] =
                   [Saw(@, "wireless", e.name, p,
                        IF p.id # 0 THEN p.running ELSE e.running, e.running)
                    EXCEPT !.pc = "w_put"]]
  /\ UNCHANGED <<tables, clients, objs, devices, metrics, alerts, calls, scan, san, probe>>

\* storage.updateWirelessInterface resp. createWirelessInterface returned
WirelessPut(t) ==
  /\ task[t].pc = "w_put"
  /\ LET e == Head(task[t].todo)
         p == task[t].prev
     IN /\ wirelessInterfaces' = Upsert(wirelessInterfaces, p.id, InterfaceOf(task[t].dev, e))
        /\ IF RunningChanged(p, e)
           THEN /\ task' = [task EXCEPT ![t] = [@ EXCEPT !.pc = "w_alert"]]
                /\ UNCHANGED devices
           ELSE AfterWireless(t, NextElement(task[t], "w_get"))
  /\ UNCHANGED <<interfaces, capsmanAPs, clients, objs, metrics, alerts, calls, scan, san, probe>>

\* createAlert "Wireless Interface Up" / "Wireless Interface Down" returned
WirelessAlert(t) ==
  /\ task[t].pc = "w_alert"
  /\ LET e == Head(task[t].todo)
         sev == IF e.running THEN INFO ELSE WARNING
     IN /\ alerts' = Append(alerts, AlertOf(task[t].dev, sev,
                              IF e.running THEN "Wireless Interface Up"
                              ELSE "Wireless Interface Down"))
        /\ AfterWireless(t, NextElement(Emit(task[t], "wireless", e.name, sev), "w_get"))
  /\ UNCHANGED <<tables, clients, objs, metrics, calls, scan, san, probe>>

\* "/interface/wireless/registration-table/print" answered: the clients are
\* not stored, collectWirelessStats returns
WirelessRegAnswer(t) ==
  /\ task[t].pc = "w_reg" /\ Answering(task[t])
  /\ Continue(t, StartCaps(task[t], objs, clients))
  /\ UNCHANGED <<tables, clients, objs, metrics, alerts, calls, scan, san, probe>>

\* "/caps-man/remote-cap/print" answered with the remote CAPs l
RemoteCapListAnswer(t, l) ==
  /\ task[t].pc = "rc_q" /\ Answering(task[t])
  /\ task' = [task EXCEPT ![t] = [@ EXCEPT !.pc = "ap_get", !.todo = l]]
  /\ UNCHANGED <<tables, clients, objs, devices, metrics, alerts, calls, scan, san, probe>>

\* storage.getCapsmanAPs(deviceId) returned
ApGet(t) ==
  /\ task[t].pc = "ap_get"
  /\ LET cap == Head(task[t].todo)
         p == FindAP(capsmanAPs, task[t].dev, cap.macAddress)
     IN task' = [task EXCEPT ![t] =
                   [Saw(@, "capsmanAP", cap.macAddress, p,
                        IF p.id # 0 THEN p.state ELSE cap.state, cap.state)
                    EXCEPT !.pc = "ap_put"]]
  /\ UNCHANGED <<tables, clients, objs, devices, metrics, alerts, calls, scan, san, probe>>

\* a loop that creates an alert for every remote CAP it stores
ApAlertDueAlways(p, cap) == TRUE

\* does the loop of collectCapsmanStats create an alert for cap ?
ApAlertDue(p, cap) ==
  \/ p.id = 0
  \/ p.state # cap.state /\ cap.state \in {"running", "disassociated", "disconnected"}

\* storage.updateCapsmanAP resp. storage.createCapsmanAP returned
ApPut(t) ==
  /\ task[t].pc = "ap_put"
  /\ LET cap == Head(task[t].todo)
         p == task[t].prev
     IN /\ capsmanAPs' = Upsert(capsmanAPs, p.id, CapsmanAPOf(task[t].dev, cap))
        /\ IF ApAlertDue(p, cap)
           THEN /\ task' = [task EXCEPT ![t] = [@ EXCEPT !.pc = "ap_alert"]]
                /\ UNCHANGED devices
           ELSE AfterCapsman(t, NextElement(task[t], "ap_get"))
  /\ UNCHANGED <<interfaces, wirelessInterfaces, clients, objs, metrics, alerts, calls, scan, san, probe>>

\* a loop that reports every alert of a stored AP as a WARNING
ApAlertOfWarning(d, p, cap) ==
  IF p.id = 0 THEN AlertOf(d, INFO, "New CAPsMAN AP Detected")
  ELSE AlertOf(d, WARNING, "CAPsMAN AP Disconnected")

\* severity and title of the alert of the loop of collectCapsmanStats
ApAlertOf(d, p, cap) ==
  IF p.id = 0 THEN AlertOf(d, INFO, "New CAPsMAN AP Detected")
  ELSE IF cap.state = "running" THEN AlertOf(d, INFO, "CAPsMAN AP Connected")
  ELSE AlertOf(d, WARNING, "CAPsMAN AP Disconnected")

\* createAlert of the loop of collectCapsmanStats returned
ApAlert(t) ==
  /\ task[t].pc = "ap_alert"
  /\ LET cap == Head(task[t].todo)
         a == ApAlertOf(task[t].dev, task[t].prev, cap)
     IN /\ alerts' = Append(alerts, a)
        /\ AfterCapsman(t, NextElement(Emit(task[t], "capsmanAP", cap.macAddress, a.severity),
                                       "ap_get"))
  /\ UNCHANGED <<tables, clients, objs, metrics, calls, scan, san, probe>>

\* the steps of the loops
Loops ==
  \/ \E t \in Tasks, l \in InterfaceLists : IfaceListAnswer(t, l)
  \/ \E t \in Tasks : IfaceGet(t)
  \/ \E t \in Tasks : IfacePut(t)
  \/ \E t \in Tasks : IfaceAlert(t)
  \/ \E t \in Tasks, l \in WirelessLists : WirelessListAnswer(t, l)
  \/ \E t \in Tasks : WirelessGet(t)
  \/ \E t \in Tasks : WirelessPut(t)
  \/ \E t \in Tasks : WirelessAlert(t)
  \/ \E t \in Tasks : WirelessRegAnswer(t)
  \/ \E t \in Tasks, l \in RemoteCapLists : RemoteCapListAnswer(t, l)
  \/ \E t \in Tasks : ApGet(t)
  \/ \E t \in Tasks : ApPut(t)
  \/ \E t \in Tasks : ApAlert(t)

\* what the device answers while it is reachable: every open succeeds and
\* the resource query, when it answers, answers with a record
Reachable ==
  \/ \E c \in 1..MaxCalls : OpenResolve(c)
  \/ \E t \in Tasks, r \in Snapshots : ResourceAnswer(t, r, "none")
  \/ \E t \in Tasks : QueryReject(t)
  \/ \E t \in Tasks : IfaceAnswer(t)
  \/ \E t \in Tasks : WirelessAnswer(t)
  \/ \E t \in Tasks, e \in BOOLEAN : CapsAnswer(t, e)
  \/ \E t \in Tasks : RemoteCapAnswer(t)

\* collect cycles for the stored devices, one after the other, with answers
\* that are not empty
NextSub ==
  \/ \E d \in StoredIds : Serial /\ StartCollect(Caller, d)
  \/ \E c \in 1..MaxCalls : TimerFire(c)
  \/ Reachable
  \/ Loops

SpecSub == Init /\ [][NextSub]_vars

\* two collect cycles that overlap, on a device that is reachable and has
\* neither wireless interfaces nor CAPsMAN
NextSubPar ==
  \/ \E t \in Tasks, d \in StoredIds : StartCollect(t, d)
  \/ \E c \in 1..MaxCalls : OpenResolve(c)
  \/ \E t \in Tasks, r \in Snapshots : ResourceAnswer(t, r, "none")
  \/ \E t \in Tasks, l \in InterfaceLists : IfaceListAnswer(t, l)
  \/ \E t \in Tasks : IfaceGet(t)
  \/ \E t \in Tasks : IfacePut(t)
  \/ \E t \in Tasks : IfaceAlert(t)
  \/ \E t \in Tasks : WirelessAnswer(t)
  \/ \E t \in Tasks : CapsAnswer(t, FALSE)

SpecSubPar == Init /\ [][NextSubPar]_vars

\* ================================================================
\* discoverDevices
\* ================================================================
\* A string is a sequence of one-character strings.
\* the subnet arguments of the model: masks 24, 28, 29, 30, 31, 32, 33, -1,
\* "abc", "", no mask at all, "30x" and "0x1e"
Subnets ==
  { <<"1", "0", ".", "0", ".", "0", ".", "0", "/", "2", "4">>,
    <<"1", "0", ".", "0", ".", "0", ".", "0", "/", "2", "8">>,
    <<"1", "0", ".", "0", ".", "0", ".", "8", "/", "2", "9">>,
    <<"1", "0", ".", "0", ".", "0", ".", "0", "/", "3", "0">>,
    <<"1", "0", ".", "0", ".", "0", ".", "0", "/", "3", "1">>,
    <<"1", "0", ".", "0", ".", "0", ".", "0", "/", "3", "2">>,
    <<"1", "0", ".", "0", ".", "0", ".", "0", "/", "3", "3">>,
    <<"1", "0", ".", "0", ".", "0", ".", "0", "/", "-", "1">>,
    <<"1", "0", ".", "0", ".", "0", ".", "0", "/", "a", "b", "c">>,
    <<"1", "0", ".", "0", ".", "0", ".", "0", "/">>,
    <<"1", "0", ".", "0", ".", "0", ".", "0">>,
    <<"1", "0", ".", "0", ".", "0", ".", "0", "/", "3", "0", "x">>,
    <<"1", "0", ".", "0", ".", "0", ".", "0", "/", "0", "x", "1", "e">> }

\* hosts (last octet) at which a MikroTik device may answer a probe
MikrotikHosts == {1, 2}

\* the credentials a successful probe reports
ProbeCredentials == [username |-> "admin", password |-> ""]

Min(a, b) == IF a < b THEN a ELSE b

\* the value of a character as a digit, 99 if it is none
DigitOf(c) ==
  CASE c = "0" -> 0 [] c = "1" -> 1 [] c = "2" -> 2 [] c = "3" -> 3 [] c = "4" -> 4
    [] c = "5" -> 5 [] c = "6" -> 6 [] c = "7" -> 7 [] c = "8" -> 8 [] c = "9" -> 9
    [] c \in {"a", "A"} -> 10 [] c \in {"b", "B"} -> 11 [] c \in {"c", "C"} -> 12
    [] c \in {"d", "D"} -> 13 [] c \in {"e", "E"} -> 14 [] c \in {"f", "F"} -> 15
    [] OTHER -> 99

\* s.split(sep)
RECURSIVE Split(_, _)
Split(s, sep) ==
  IF \E i \in DOMAIN s : s[i] = sep
  THEN LET i == CHOOSE k \in DOMAIN s : s[k] = sep /\ \A j \in 1..(k - 1) : s[j] # sep
       IN <<SubSeq(s, 1, i - 1)>> \o Split(SubSeq(s, i + 1, Len(s)), sep)
  ELSE <<s>>

\* the digits of s up to the first character that is no digit of the radix
RECURSIVE DigitPrefix(_, _)
DigitPrefix(s, radix) ==
  IF s # <<>> /\ DigitOf(s[1]) < radix
  THEN <<DigitOf(s[1])>> \o DigitPrefix(Tail(s), radix)
  ELSE <<>>

RECURSIVE ValueOf(_, _)
ValueOf(ds, radix) ==
  IF ds = <<>> THEN 0 ELSE ValueOf(SubSeq(ds, 1, Len(ds) - 1), radix) * radix + ds[Len(ds)]

RECURSIVE TrimStart(_)
TrimStart(s) == IF s # <<>> /\ s[1] = " " THEN TrimStart(Tail(s)) ELSE s

NaN == [nan |-> TRUE, val |-> 0]

\* parseInt(s) without a radix: leading blanks, a sign, "0x", then digits
ParseInt(s) ==
  LET t == TrimStart(s)
      neg == t # <<>> /\ t[1] = "-"
      u == IF t # <<>> /\ t[1] \in {"-", "+"} THEN Tail(t) ELSE t
      hex == Len(u) >= 2 /\ u[1] = "0" /\ u[2] \in {"x", "X"}
      radix == IF hex THEN 16 ELSE 10
      ds == DigitPrefix(IF hex THEN SubSeq(u, 3, Len(u)) ELSE u, radix)
  IN IF ds = <<>> THEN NaN
     ELSE [nan |-> FALSE, val |-> IF neg THEN -ValueOf(ds, radix) ELSE ValueOf(ds, radix)]

\* const [baseIP, mask] = subnet.split('/')
BaseOf(subnet) == Split(subnet, "/")[1]
\* a missing mask is undefined, which parseInt reads as "undefined"
MaskOf(subnet) ==
  LET parts == Split(subnet, "/")
  IN IF Len(parts) >= 2 THEN parts[2]
     ELSE <<"u", "n", "d", "e", "f", "i", "n", "e", "d">>

\* a validation without the lower limit
ValidMaskUpper(maskBits) == ~maskBits.nan /\ maskBits.val <= 32

\* the negation of the condition of the throw
ValidMask(maskBits) == ~(maskBits.nan \/ maskBits.val < 0 \/ maskBits.val > 32)

\* 2 ** (32 - maskBits).  The model's integers have 32 bits, the program's
\* numbers do not: from 2 ** 30 on the power is represented by 2 ** 30, and
\* it is used only in Math.min(ipCount - 2, 254)
IpCount(m) == 2 ^ Min(32 - m, 30)

\* a host count that includes the network and the broadcast address
MaxHostsAll(m) == Min(IpCount(m), 254)

MaxHosts(m) == Min(IpCount(m) - 2, 254)

batchSize == 10

\* Math.ceil(maxHosts / batchSize)
TotalBatches(maxHosts) == -((-maxHosts) \div batchSize)

StartIndex(batch) == batch * batchSize + 1

\* one batch for all the hosts that are left
EndIndexAll(startIndex, maxHosts) == maxHosts

EndIndex(startIndex, maxHosts) == Min(startIndex + batchSize - 1, maxHosts)

\* the first three parts of baseIP.split('.').map(parseInt)
PrefixOf(baseIP) ==
  LET parts == Split(baseIP, ".") IN [k \in 1..3 |-> ParseInt(parts[k]).val]

\* `${baseIPParts[0]}.${baseIPParts[1]}.${baseIPParts[2]}.${i}`
IpOf(prefix, i) == Append(prefix, i)

\* the object checkIfMikrotik returns for a device it could log in to
Descriptor(ip) ==
  [ipAddress |-> ip, username |-> ProbeCredentials.username,
   password |-> ProbeCredentials.password]

\* storage.getDeviceByIp(ip): a copy of the record, or nothing
GetDeviceByIp(dv, ip) ==
  IF \E d \in DOMAIN dv : dv[d].ipAddress = ip
  THEN LET d == CHOOSE x \in DOMAIN dv : dv[x].ipAddress = ip
       IN [id |-> d, isOnline |-> dv[d].isOnline]
  ELSE NoRecord

\* an update that always carries the probed credentials
CredentialsAlways(existing, device) ==
  [username |-> device.username, password |-> device.password]

\* ...(!existingDevice.isOnline ? {username, password} : {}) : the
\* credentials the update carries, NoRecord if it carries none
Credentials(existing, device) ==
  IF ~existing.isOnline
  THEN [username |-> device.username, password |-> device.password]
  ELSE NoRecord

\* storage.updateDevice(existingDevice.id, {..., lastSeen, credentials})
UpdateDiscovered(dv, existing, device, now) ==
  LET cr == Credentials(existing, device)
  IN [dv EXCEPT ![existing.id].lastSeen = now,
                ![existing.id].username = IF cr = NoRecord THEN @ ELSE cr.username,
                ![existing.id].password = IF cr = NoRecord THEN @ ELSE cr.password]

\* storage.createDevice(newDevice)
CreateDiscovered(dv, device, now) ==
  LET NewIds == <<"d2", "d3", "d4">>
      id == NewIds[Cardinality(DOMAIN dv \ StoredIds) + 1]
  IN [d \in DOMAIN dv \cup {id} |->
        IF d = id
        THEN [isOnline |-> FALSE, lastSeen |-> now, hasCAPsMAN |-> FALSE,
              ipAddress |-> device.ipAddress, username |-> device.username,
              password |-> device.password]
        ELSE dv[d]]

\* the hosts of a batch in the order of batchResults
RECURSIVE Ascending(_)
Ascending(S) ==
  IF S = {} THEN <<>>
  ELSE LET m == CHOOSE x \in S : \A y \in S : x <= y IN <<m>> \o Ascending(S \ {m})

\* the head of the batch loop: the probes of the batch are started, or the
\* call returns discoveredCount
Advance(sc) ==
  IF sc.batch < TotalBatches(sc.maxHosts)
  THEN LET first == StartIndex(sc.batch)
           hosts == first..EndIndex(first, sc.maxHosts)
       IN [sc EXCEPT !.pc = "probing", !.pending = hosts, !.found = {},
                     !.probed = @ \o [k \in 1..Cardinality(hosts) |->
                                        IpOf(sc.prefix, first + k - 1)],
                     !.io = @ + Cardinality(hosts)]
  ELSE [sc EXCEPT !.pc = "done", !.ret = sc.count]

\* the head of the loop over batchDiscoveredDevices
NextDevice(sc) ==
  IF sc.queue # <<>>
  THEN [sc EXCEPT !.pc = "u_get", !.io = @ + 1]
  ELSE Advance([sc EXCEPT !.batch = @ + 1])

\* discoverDevices(subnet) up to its first await, or to its throw
StartDiscover(subnet) ==
  /\ scan.pc = "idle"
  /\ calls < MaxCalls
  /\ calls' = calls + 1
  /\ LET maskBits == ParseInt(MaskOf(subnet))
         sc == [scan EXCEPT !.subnet = subnet]
     IN scan' = IF ValidMask(maskBits)
                THEN Advance([sc EXCEPT !.prefix = PrefixOf(BaseOf(subnet)),
                                        !.maxHosts = MaxHosts(maskBits.val)])
                ELSE [sc EXCEPT !.pc = "failed"]
  /\ UNCHANGED <<task, clients, objs, devices, metrics, alerts, tables, san, probe>>

\* checkIfMikrotik(ip) of host h returned: a descriptor or null
ProbeDone(h, isMikrotik) ==
  /\ scan.pc = "probing"
  /\ h \in scan.pending
  /\ isMikrotik => h \in MikrotikHosts
  /\ scan' = [scan EXCEPT !.pending = @ \ {h},
                          !.found = IF isMikrotik THEN @ \cup {h} ELSE @]
  /\ UNCHANGED <<task, clients, objs, devices, metrics, alerts, calls, tables, san, probe>>

\* Promise.all resolved: filter(Boolean), then the first getDeviceByIp or
\* the next batch
BatchResolved ==
  /\ scan.pc = "probing"
  /\ scan.pending = {}
  /\ scan' = NextDevice([scan EXCEPT
                !.queue = [k \in 1..Cardinality(scan.found) |->
                             Descriptor(IpOf(scan.prefix, Ascending(scan.found)[k]))]])
  /\ UNCHANGED <<task, clients, objs, devices, metrics, alerts, calls, tables, san, probe>>

\* storage.getDeviceByIp returned and updateDevice or createDevice is
\* called, or it threw and the catch block logged the error
UpsertGet(ok) ==
  /\ scan.pc = "u_get"
  /\ scan' = IF ok
             THEN [scan EXCEPT !.existing = GetDeviceByIp(devices, Head(scan.queue).ipAddress),
                               !.pc = "u_put", !.io = @ + 1]
             ELSE NextDevice([scan EXCEPT !.queue = Tail(@)])
  /\ UNCHANGED <<task, clients, objs, devices, metrics, alerts, calls, tables, san, probe>>

\* a count that includes the upserts that threw
CountedAlways(count, ok) == count + 1

\* discoveredCount++ after the awaited updateDevice or createDevice
Counted(count, ok) == IF ok THEN count + 1 ELSE count

\* storage.updateDevice or storage.createDevice returned, or it threw and
\* the catch block logged the error
UpsertPut(ok) ==
  /\ scan.pc = "u_put"
  /\ LET device == Head(scan.queue)
         ex == scan.existing
         wrote == ok /\ ex # NoRecord /\ Credentials(ex, device) # NoRecord
     IN /\ devices' = IF ~ok THEN devices
                      ELSE IF ex # NoRecord
                           THEN UpdateDiscovered(devices, ex, device, calls)
                           ELSE CreateDiscovered(devices, device, calls)
        /\ scan' = NextDevice([scan EXCEPT
                      !.queue = Tail(@), !.existing = NoRecord,
                      !.count = Counted(@, ok),
                      !.stored = IF wrote THEN @ \cup {ex.id} ELSE @])
  /\ UNCHANGED <<task, clients, objs, metrics, alerts, calls, tables, san, probe>>

\* the stored device is online or offline when the scan begins
InitDisc ==
  /\ task = [t \in Tasks |-> IdleTask]
  /\ clients = [d \in DeviceIds |-> 0]
  /\ objs = <<>>
  /\ \E online \in BOOLEAN : devices = [d \in StoredIds |-> StoredDevice(online)]
  /\ metrics = <<>>
  /\ alerts = <<>>
  /\ calls = 0
  /\ interfaces = <<>>
  /\ wirelessInterfaces = <<>>
  /\ capsmanAPs = <<>>
  /\ scan = IdleScan
  /\ san = IdleSan
  /\ probe = IdleProbe

NextDisc ==
  \/ \E s \in Subnets : StartDiscover(s)
  \/ \E h \in scan.pending, m \in BOOLEAN : ProbeDone(h, m)
  \/ BatchResolved
  \/ \E ok \in BOOLEAN : UpsertGet(ok)
  \/ \E ok \in BOOLEAN : UpsertPut(ok)

SpecDisc == InitDisc /\ [][NextDisc]_vars

\* ================================================================
\* sanitizeObjectValues
\* ================================================================
\* keys of the records the device answers with
Key ==
  [running |-> <<"r", "u", "n", "n", "i", "n", "g">>,
   disabled |-> <<"d", "i", "s", "a", "b", "l", "e", "d">>,
   rxByte |-> <<"r", "x", "-", "b", "y", "t", "e">>,
   txBytes |-> <<"t", "x", "-", "b", "y", "t", "e", "s">>,
   mac |-> <<"m", "a", "c", "-", "a", "d", "d", "r", "e", "s", "s">>,
   mtu |-> <<"m", "t", "u">>,
   name |-> <<"n", "a", "m", "e">>,
   comment |-> <<"c", "o", "m", "m", "e", "n", "t">>,
   type |-> <<"t", "y", "p", "e">>,
   uptime |-> <<"u", "p", "t", "i", "m", "e">>,
   stats |-> <<"s", "t", "a", "t", "s">>]

\* key.includes(sub)
Includes(key, sub) ==
  \E i \in 0..(Len(key) - Len(sub)) : SubSeq(key, i + 1, i + Len(sub)) = sub

\* !x
Falsy(x) ==
  \/ x.t \in {"undefined", "null", "NaN"}
  \/ x.t = "number" /\ x.v = 0
  \/ x.t = "string" /\ x.v = ""
  \/ x.t = "boolean" /\ ~x.v

\* typeof x === 'object'
IsObject(x) == x.t \in {"null", "object", "array"}

\* Object.entries(x): the own keys with their values; the keys of an
\* array are its indices "0", "1", ...
Entries(x) ==
  LET IndexKey(i) == <<CASE i = 1 -> "0" [] i = 2 -> "1" [] i = 3 -> "2" [] OTHER -> "9">>
  IN IF x.t = "array" THEN [k \in {IndexKey(i) : i \in DOMAIN x.v} |->
                              x.v[CHOOSE i \in DOMAIN x.v : IndexKey(i) = k]]
     ELSE x.v

\* a normalizer whose default is null for every key
DefaultOfNull(key) == JsNull

\* the default of a field by its key
DefaultOf(key) ==
  IF key = Key.running \/ key = Key.disabled THEN Js("boolean", FALSE)
  ELSE IF Includes(key, <<"b", "y", "t", "e">>) \/ Includes(key, <<"b", "y", "t", "e", "s">>)
       THEN Js("number", 0)
  ELSE IF key = Key.mac THEN Js("string", "00:00:00:00:00:00")
  ELSE IF key = Key.mtu THEN Js("number", 1500)
  ELSE IF key = Key.name THEN Js("string", "unknown")
  ELSE IF key = Key.comment THEN Js("string", "")
  ELSE IF key = Key.type THEN Js("string", "ether")
  ELSE JsNull

\* sanitizeObjectValues(obj)
RECURSIVE sanitizeObjectValues(_)
sanitizeObjectValues(obj) ==
  IF Falsy(obj) \/ ~IsObject(obj)
  THEN IF Falsy(obj) THEN JsNull ELSE obj
  ELSE LET e == Entries(obj)
       IN Js("object", [key \in DOMAIN e |->
                      IF e[key].t \in {"undefined", "null", "NaN"} THEN DefaultOf(key)
                      ELSE IF IsObject(e[key]) THEN sanitizeObjectValues(e[key])
                      ELSE e[key]])

\* executeCommand: processedResult
ProcessedResult(result) ==
  IF result.t = "array"
  THEN Js("array", [i \in DOMAIN result.v |-> sanitizeObjectValues(result.v[i])])
  ELSE sanitizeObjectValues(result)

\* the results a query may give: records with one field, each of ten
\* keys with each scalar value; records with a nested record or a nested
\* array; arrays; nothing
Results ==
  LET FieldKeys == {Key.running, Key.disabled, Key.rxByte, Key.txBytes, Key.mac, Key.mtu,
                    Key.name, Key.comment, Key.type, Key.uptime}
      ScalarValues ==
        {JsUndefined, JsNull, JsNaN, Js("number", 0), Js("number", 5), Js("string", ""),
         Js("string", "x"), Js("boolean", FALSE), Js("boolean", TRUE)}
      Nested ==
        {Js("object", [k \in {Key.mtu, Key.rxByte} |->
                         IF k = Key.mtu THEN JsNaN ELSE Js("number", 7)]),
         Js("object", [k \in {Key.stats} |-> Js("object", [j \in {Key.type} |-> JsUndefined])]),
         Js("array", <<Js("object", [k \in {Key.name} |-> JsNull]),
                       Js("object", [k \in {Key.mtu} |-> Js("number", 9)])>>),
         Js("array", <<>>)}
  IN {Js("object", [k \in {key} |-> x]) : key \in FieldKeys, x \in ScalarValues}
     \cup {Js("object", [k \in {Key.stats, Key.name} |->
                           IF k = Key.stats THEN r ELSE Js("string", "ether1")]) : r \in Nested}
     \cup {Js("array", <<>>), JsUndefined, Js("object", <<>>),
           Js("array", <<Js("object", [k \in {Key.running} |-> JsNull]),
                         Js("object", [k \in {Key.name} |-> Js("string", "x")])>>)}

\* sanitizeObjectValues is applied to a value
Sanitize(x) ==
  /\ san.pc = "idle"
  /\ san' = [pc |-> "done", via |-> "sanitize", in |-> x, out |-> sanitizeObjectValues(x)]
  /\ UNCHANGED <<task, clients, objs, devices, metrics, alerts, calls, tables, scan, probe>>

\* executeCommand processes the result of its query
Process(x) ==
  /\ san.pc = "idle"
  /\ san' = [pc |-> "done", via |-> "execute", in |-> x, out |-> ProcessedResult(x)]
  /\ UNCHANGED <<task, clients, objs, devices, metrics, alerts, calls, tables, scan, probe>>

NextSan ==
  \/ \E x \in Results : Sanitize(x)
  \/ \E x \in Results : Process(x)

SpecSan == Init /\ [][NextSan]_vars

\* ================================================================
\* checkIfMikrotik
\* ================================================================
Usernames == <<"admin", "user", "mikrotik">>
Passwords == <<"", "admin", "mikrotik", "password", "routeros">>

\* three loops with the username innermost
NextComboUserInner(c) ==
  IF c.username < Len(Usernames) THEN [c EXCEPT !.username = @ + 1]
  ELSE IF c.password < Len(Passwords) THEN [c EXCEPT !.password = @ + 1, !.username = 1]
  ELSE [port |-> c.port + 1, username |-> 1, password |-> 1]

\* the three nested for loops: the combination after c
NextCombo(c) ==
  IF c.password < Len(Passwords) THEN [c EXCEPT !.password = @ + 1]
  ELSE IF c.username < Len(Usernames) THEN [c EXCEPT !.username = @ + 1, !.password = 1]
  ELSE [port |-> c.port + 1, username |-> 1, password |-> 1]

\* one iteration up to `await client.connect(3000)`: new MikrotikClient,
\* setPort(port), connect()
Attempt(pr, c) ==
  [pr EXCEPT !.pc = "p_race", !.combo = c,
             !.cur = ClientConnect(SetPort(NewClient("host"), c.port)),
             !.resources = FALSE,
             !.tried = Append(@, [port |-> Ports[c.port],
                                  username |-> Usernames[c.username],
                                  password |-> Passwords[c.password]])]

\* the iteration is over without a return: the next one, or `return null`.
\* The client of the iteration is dropped; its timer, if pending, finds
\* this.client null and does nothing
NextAttempt(pr) ==
  LET pn == [pr EXCEPT !.sessions = Append(@, pr.cur.sess)]
      c == pr.combo
      last == c.port = Len(Ports) /\ c.username = Len(Usernames)
              /\ c.password = Len(Passwords)
  IN IF last THEN [pn EXCEPT !.pc = "done", !.ret = NoDescriptor]
     ELSE Attempt(pn, NextCombo(pr.combo))

\* `await client.disconnect()` is called; nextpc awaits it
ProbeDisconnect(pr, nextpc) ==
  [pr EXCEPT !.pc = nextpc, !.cur = DisconnectClose(@)]

\* checkIfMikrotik(ipAddress) up to its first await
StartProbe ==
  /\ probe.pc = "idle"
  /\ probe' = Attempt(probe, probe.combo)
  /\ UNCHANGED <<task, clients, objs, devices, metrics, alerts, calls, tables, scan, san>>

\* connect() of the running iteration resolves and returns true; the
\* resource query is forwarded
ProbeOpenResolve ==
  /\ probe.pc = "p_race" /\ probe.cur.open = "pending"
  /\ LET o == OnOpened(probe.cur)
     IN probe' = IF CanForward(o) THEN [probe EXCEPT !.cur = o, !.pc = "p_res"]
                 ELSE ProbeDisconnect([probe EXCEPT !.cur = o], "p_close_err")
  /\ UNCHANGED <<task, clients, objs, devices, metrics, alerts, calls, tables, scan, san>>

\* connect() of the running iteration rejects: the catch block of connect
\* closes the session and connect returns false
ProbeOpenReject ==
  /\ probe.pc = "p_race" /\ probe.cur.open = "pending"
  /\ probe' = NextAttempt([probe EXCEPT !.cur = ConnectCatch(OnOpenError(@))])
  /\ UNCHANGED <<task, clients, objs, devices, metrics, alerts, calls, tables, scan, san>>

\* the timer of the client of the running iteration fires: before the open
\* call has completed it closes the session and connect returns false,
\* later it closes the session the iteration works with
ProbeTimer ==
  /\ probe.pc \in {"p_race", "p_res", "p_id", "p_close", "p_close_err"}
  /\ probe.cur.tcur
  /\ probe' = IF probe.pc = "p_race"
              THEN NextAttempt([probe EXCEPT !.cur = ConnectCatch(OnTimer(@))])
              ELSE [probe EXCEPT !.cur = OnTimer(@)]
  /\ UNCHANGED <<task, clients, objs, devices, metrics, alerts, calls, tables, scan, san>>

\* "/system/resource/print" answered, with a record or with nothing; the
\* identity query is forwarded, or executeCommand throws, the inner try
\* catches it and the disconnect follows
ProbeResAnswer(rec) ==
  /\ probe.pc = "p_res" /\ probe.cur.sess = "open"
  /\ LET pr == [probe EXCEPT !.resources = rec]
     IN probe' = IF CanForward(pr.cur) THEN [pr EXCEPT !.pc = "p_id"]
                 ELSE ProbeDisconnect(pr, "p_close")
  /\ UNCHANGED <<task, clients, objs, devices, metrics, alerts, calls, tables, scan, san>>

\* "/system/resource/print" rejected: executeCommand rethrows to the catch
\* (cmdError), which disconnects
ProbeResReject ==
  /\ probe.pc = "p_res"
  /\ probe' = ProbeDisconnect([probe EXCEPT !.cur = ExecuteFailed(@)], "p_close_err")
  /\ UNCHANGED <<task, clients, objs, devices, metrics, alerts, calls, tables, scan, san>>

\* "/system/identity/print" answered or rejected: disconnect either way
ProbeIdDone(okay) ==
  /\ probe.pc = "p_id"
  /\ okay => probe.cur.sess = "open"
  /\ probe' = ProbeDisconnect([probe EXCEPT !.cur = IF okay THEN @ ELSE ExecuteFailed(@)],
                              "p_close")
  /\ UNCHANGED <<task, clients, objs, devices, metrics, alerts, calls, tables, scan, san>>

\* the disconnect of the try block returned: the descriptor is built and
\* returned; without a resource record reading it throws to the catch
\* (cmdError), which disconnects again
ProbeClosed ==
  /\ probe.pc = "p_close"
  /\ LET pd == [probe EXCEPT !.cur = DisconnectDone(@)]
     IN probe' = IF pd.resources
                 THEN [pd EXCEPT !.pc = "done",
                                 !.sessions = Append(@, pd.cur.sess),
                                 !.ret = [found |-> TRUE,
                                          port |-> Ports[pd.cur.port],
                                          username |-> Usernames[pd.combo.username],
                                          password |-> Passwords[pd.combo.password]]]
                 ELSE ProbeDisconnect(pd, "p_close_err")
  /\ UNCHANGED <<task, clients, objs, devices, metrics, alerts, calls, tables, scan, san>>

\* the disconnect of the catch block returned: the next combination
ProbeClosedErr ==
  /\ probe.pc = "p_close_err"
  /\ probe' = NextAttempt([probe EXCEPT !.cur = DisconnectDone(@)])
  /\ UNCHANGED <<task, clients, objs, devices, metrics, alerts, calls, tables, scan, san>>

NextProbe ==
  \/ StartProbe
  \/ ProbeOpenResolve
  \/ ProbeOpenReject
  \/ ProbeTimer
  \/ \E rec \in BOOLEAN : ProbeResAnswer(rec)
  \/ ProbeResReject
  \/ \E okay \in BOOLEAN : ProbeIdDone(okay)
  \/ ProbeClosed
  \/ ProbeClosedErr

SpecProbe == Init /\ [][NextProbe]_vars
\* ===================================================== the claims
\* the MikrotikClients of device d whose RouterOSClient is open
Live(d) == {c \in DOMAIN objs : objs[c].dev = d /\ objs[c].sess = "open"}

\* the MikrotikClients of device d whose RouterOSClient is not closed
Unreleased(ob, d) ==
  {c \in DOMAIN ob : ob[c].dev = d /\ (ob[c].sess \in {"opening", "open"} \/ ob[c].leaked > 0)}

\* task t starts a call of operation o in this step
Starts(t, o) == Free(t) /\ calls' = calls + 1 /\ task'[t].op = o

\* the call of task t returns in this step
Returns(t) == task'[t].pc = "done" /\ (task[t].pc \notin {"idle", "done"} \/ calls' = calls + 1)

\* C1: at every instant at most one session opened for a device is open,
\* whatever the interleaving of the calls for that device
C1_OneLiveSession == \A d \in DeviceIds : Cardinality(Live(d)) <= 1

\* C2: connectToDevice called for a device that has a connected session in
\* the map makes no connect() call, and the map entry is the same afterwards
C2_ConnectReuses ==
  \A t \in Tasks :
    (task[t].op = "connect" /\ task[t].entry0 # 0) =>
       /\ task[t].opens = 0
       /\ task[t].pc = "done" => clients[task[t].dev] = task[t].entry0

\* C3: when all four attempts of a connectToDevice call have failed, the call
\* returns false, the map has no entry for the device and every session the
\* call created is closed
AllFailed(o) == Len(o.results) = Len(Ports) /\ \A i \in DOMAIN o.results : ~o.results[i]

C3_FailedConnectLeavesNothing ==
  [][\A t \in Tasks :
       (task[t].pc = "c_race" /\ task'[t].pc # "c_race" /\ AllFailed(objs'[task[t].obj])) =>
          /\ task'[t].ret = "false"
          /\ clients'[task[t].dev] = 0
          /\ objs'[task[t].obj].sess \notin {"opening", "open"}
          /\ objs'[task[t].obj].leaked = 0]_vars

\* C4: after an execute failed the device is disconnected, and the next
\* collectDeviceMetrics makes a fresh connect instead of using the dead client
C4_ReconnectAfterFailure ==
  [][\A t \in Tasks :
       (/\ Starts(t, "collect")
        /\ clients[task'[t].dev] # 0
        /\ ~objs[clients[task'[t].dev]].connected)
       => task'[t].opens = 1]_vars

\* C5: when an executeCommand on a client that is marked connected throws,
\* the command was forwarded to the session exactly once, the caller's catch
\* block gets the error, and the client is marked not connected afterwards
QueryFails(t) == task[t].pc \in QueryPcs /\ task'[t].xerr = task[t].xerr + 1

\* the resource executeCommand of task t throws before any query is sent,
\* which the claim allows only on a client that is not marked connected
ThrowsUnsent(t) ==
  /\ task[t].pc \notin QueryPcs
  /\ task[t].err # "execute" /\ task'[t].err = "execute"

C5_ExecuteFailure ==
  [][\A t \in Tasks :
       /\ QueryFails(t) =>
             /\ task[t].fwd = 1
             /\ ~objs'[task[t].obj].connected
             /\ task[t].pc = "m_res" =>
                  (task'[t].pc = "done" /\ task'[t].ret = "false" /\ task'[t].err = "execute")
       /\ ThrowsUnsent(t) => ~objs'[clients'[task'[t].dev]].connected]_vars

\* C6: when disconnectFromDevice returns, the sessions of the device are
\* closed and the map has no entry for it; when there was no entry, the call
\* changes nothing
C6_DisconnectReleases ==
  [][\A t \in Tasks :
       (Returns(t) /\ task'[t].op = "disconnect") =>
          /\ clients'[task'[t].dev] = 0
          /\ Unreleased(objs', task'[t].dev) = {}
          /\ (task[t].pc # "d_close" /\ clients[task'[t].dev] = 0) =>
               UNCHANGED <<clients, objs, devices>>]_vars

SnapshotErrors == {"execute", "snapshot", "storage"}

C11_SnapshotFailureAlerts ==
  [][\A t \in Tasks :
       (task'[t].err \in SnapshotErrors /\ task[t].err \notin SnapshotErrors) =>
          /\ Len(alerts') = Len(alerts) + 1
          /\ alerts'[Len(alerts')].severity = WARNING
          /\ alerts'[Len(alerts')].dev = task'[t].dev]_vars

\* C12: when the query of exactly one sub-collection was rejected in a
\* cycle, the cycle returns true, has entered the three sub-collections, and
\* has sent the resource query and the first query of each of the three
C12_SubCollectionsIndependent ==
  [][\A t \in Tasks :
       (/\ Returns(t) /\ task'[t].op = "collect"
        /\ task'[t].nsm = 1 /\ task'[t].xerr = 1) =>
          /\ task'[t].ret = "true"
          /\ task'[t].subs = 3
          /\ task'[t].nq >= 4]_vars

\* the alerts a cycle created for key k of table tb
AlertsFor(tr, tb, k) ==
  {j \in DOMAIN tr.emitted : tr.emitted[j].table = tb /\ tr.emitted[j].key = k}

UniqueNames(tbl) ==
  \A i, j \in DOMAIN tbl :
    (tbl[i].deviceId = tbl[j].deviceId /\ tbl[i].name = tbl[j].name) => i = j

\* no two records of tbl have the same device and the same hardware address
UniqueMacs(tbl) ==
  \A i, j \in DOMAIN tbl :
    (tbl[i].deviceId = tbl[j].deviceId /\ tbl[i].macAddress = tbl[j].macAddress) => i = j

\* C14: the storage never holds two InterfaceRecords or two
\* WirelessInterfaceRecords of one device with the same name, nor two
\* CapsmanAP records of one device with the same hardware address
C14_UniqueRecords ==
  /\ UniqueNames(interfaces)
  /\ UniqueNames(wirelessInterfaces)
  /\ UniqueMacs(capsmanAPs)

\* C15: when the wireless query fails or its answer is empty, that step
\* creates no alert, and the cycle returns true without having created an
\* alert and with the device stored online
C15_NoWirelessIsNoError ==
  [][\A t \in Tasks :
       /\ (task[t].pc = "w_q" /\ task'[t].pc # "w_q") => alerts' = alerts
       /\ (Returns(t) /\ task'[t].op = "collect" /\ task'[t].subs >= 2) =>
            /\ task'[t].ret = "true"
            /\ task'[t].alog = <<>>
            /\ devices'[task'[t].dev].isOnline]_vars

C15_Witness ==
  \E t \in Tasks : /\ task[t].op = "collect" /\ task[t].pc = "done" /\ task[t].ret = "true"
                   /\ task[t].nq = 3 /\ task[t].xerr = 1 /\ task[t].subs = 3

MaskBits == ParseInt(MaskOf(scan.subnet))

\* C17: after discoverDevices was called with a mask-bit count that is not
\* a number, below 0 or above 32, the call has failed, no probe was started,
\* no storage call was made, no MikrotikClient exists and the stored devices
\* are what they were
C17_InvalidMaskFailsFirst ==
  (scan.pc # "idle" /\ (MaskBits.nan \/ MaskBits.val < 0 \/ MaskBits.val > 32)) =>
     /\ scan.pc = "failed"
     /\ scan.io = 0
     /\ scan.probed = <<>>
     /\ objs = <<>>
     /\ \E online \in BOOLEAN : devices = [d \in StoredIds |-> StoredDevice(online)]

C17_Witness ==
  /\ scan.pc = "failed"
  /\ MaskOf(scan.subnet) = <<"3", "3">>

\* N = max(0, min(2^(32-m) - 2, 254)), the power not computed where the
\* minimum is 254 anyway
ClaimedHosts(m) ==
  IF m <= 24 THEN 254
  ELSE IF 2 ^ (32 - m) - 2 < 0 THEN 0 ELSE 2 ^ (32 - m) - 2

\* C18: for every mask m in 0..32 the batches are disjoint and together are
\* the hosts 1..N, N = max(0, min(2^(32-m) - 2, 254)); whenever a call
\* starts probes, the addresses probed so far are the first ones of
\* base.1 .. base.N in that order, and when it returns they are all of them
C18_ProbedHosts ==
  [][/\ scan.pc = "idle" =>
          \A m \in 0..32 :
            LET mh == MaxHosts(m)
                hosts(b) == StartIndex(b)..EndIndex(StartIndex(b), mh)
                B == 0..(TotalBatches(mh) - 1)
            IN /\ UNION {hosts(b) : b \in B} = 1..ClaimedHosts(m)
               /\ \A b1, b2 \in B : b1 # b2 => hosts(b1) \cap hosts(b2) = {}
     /\ scan'.probed # scan.probed =>
          LET base == PrefixOf(BaseOf(scan'.subnet))
          IN /\ Len(scan'.probed) <= ClaimedHosts(ParseInt(MaskOf(scan'.subnet)).val)
             /\ \A k \in DOMAIN scan'.probed : scan'.probed[k] = Append(base, k)
     /\ (scan'.pc = "done" /\ scan.pc # "done") =>
          Len(scan'.probed) = ClaimedHosts(ParseInt(MaskOf(scan'.subnet)).val)]_vars

C18_Witness ==
  /\ scan.pc = "done"
  /\ MaskOf(scan.subnet) = <<"3", "0">>
  /\ scan.probed = << <<10, 0, 0, 1>>, <<10, 0, 0, 2>> >>

\* C19: at most 10 probes are in flight; and when the probes of a batch
\* start, no probe of an earlier batch is in flight, no found device of an
\* earlier batch waits for its upsert, and the probes then in flight are
\* those of that one batch
C19_BatchesInSequence ==
  [][/\ Cardinality(scan'.pending) <= 10
     /\ Len(scan'.probed) > Len(scan.probed) =>
          /\ scan.pending = {}
          /\ scan'.queue = <<>>
          /\ scan.pc = "u_put" => Len(scan.queue) = 1
          /\ scan'.pc = "probing"
          /\ \A h \in scan'.pending : (h - 1) \div 10 = scan'.batch
          /\ Len(scan.probed) = 10 * scan'.batch]_vars

C19_Witness ==
  /\ scan.pc = "probing"
  /\ scan.batch = 1
  /\ scan.count = 2
  /\ Cardinality(scan.pending) = 10

\* C20: no step changes the username or the password of a stored device
\* whose record is online; and an upsert that finds the record offline
\* stores the probed credentials
C20_CredentialsOfOnlineKept ==
  [][/\ \A d \in DOMAIN devices :
          devices[d].isOnline =>
            /\ devices'[d].username = devices[d].username
            /\ devices'[d].password = devices[d].password
     /\ \A d \in DOMAIN devices :
          (/\ scan.pc = "u_put" /\ scan.existing # NoRecord /\ scan.existing.id = d
           /\ ~devices[d].isOnline /\ devices' # devices) =>
            /\ devices'[d].username = Head(scan.queue).username
            /\ devices'[d].password = Head(scan.queue).password]_vars

C20_Witness ==
  /\ devices["d1"].isOnline
  /\ devices["d1"].lastSeen # 0
  /\ scan.count >= 1
  /\ devices["d1"].username = StoredCredentials.username
  /\ devices["d1"].password = StoredCredentials.password

\* the stored devices discoverDevices has written: it alone sets lastSeen
\* in a scan, and to a time that is not 0
Written == {d \in DOMAIN devices : devices[d].lastSeen # 0}

\* C21: a discoverDevices call with a mask-bit count in 0..32 never fails;
\* its count is at every moment the number of records it has created or
\* updated, and that is the number it returns
C21_CountIsWrites ==
  (scan.pc # "idle" /\ ~MaskBits.nan /\ MaskBits.val >= 0 /\ MaskBits.val <= 32) =>
     /\ scan.pc # "failed"
     /\ scan.count = Cardinality(Written)
     /\ scan.pc = "done" => scan.ret = Cardinality(Written)

\* both hosts of a /30 answered the probe, one upsert threw
C21_Witness ==
  /\ scan.pc = "done"
  /\ MaskOf(scan.subnet) = <<"3", "0">>
  /\ scan.io = 6
  /\ scan.ret = 1

\* the default the normalizer is to give a field of that key
ClaimedDefault(key) ==
  CASE key \in {Key.running, Key.disabled} -> Js("boolean", FALSE)
    [] key \notin {Key.running, Key.disabled} /\ Includes(key, <<"b", "y", "t", "e">>) -> Js("number", 0)
    [] key = Key.mac -> Js("string", "00:00:00:00:00:00")
    [] key = Key.mtu -> Js("number", 1500)
    [] key = Key.name -> Js("string", "unknown")
    [] key = Key.comment -> Js("string", "")
    [] key = Key.type -> Js("string", "ether")
    [] OTHER -> JsNull

\* two scalar values are the same value
Same(a, b) == a.t = b.t /\ (a.t \in {"number", "string", "boolean"} => a.v = b.v)

\* y is the record x with every undefined, null or NaN field replaced by
\* its default, every scalar field kept and every nested record treated
\* alike; what becomes of a nested array is not said here
RECURSIVE NormalizedAs(_, _)
NormalizedAs(x, y) ==
  /\ y.t = "object"
  /\ DOMAIN y.v = DOMAIN x.v
  /\ \A k \in DOMAIN x.v :
       /\ y.v[k].t \notin {"undefined", "NaN"}
       /\ CASE x.v[k].t \in {"undefined", "null", "NaN"} -> Same(y.v[k], ClaimedDefault(k))
            [] x.v[k].t = "object" -> NormalizedAs(x.v[k], y.v[k])
            [] x.v[k].t = "array" -> TRUE
            [] OTHER -> Same(y.v[k], x.v[k])

\* C22: the normalizer maps a record to a record with the same keys in
\* which each undefined, null or NaN value is replaced by the default of
\* its key, each other scalar is unchanged and nested records are
\* normalized the same way, so that no field is undefined or NaN; the
\* records of an array result of executeCommand are normalized so too
C22_Normalized ==
  san.pc = "done" =>
    /\ san.in.t = "object" => NormalizedAs(san.in, san.out)
    /\ (san.via = "execute" /\ san.in.t = "array") =>
         \A i \in DOMAIN san.in.v : NormalizedAs(san.in.v[i], san.out.v[i])

C22_Witness ==
  /\ san.pc = "done"
  /\ san.in.t = "object"
  /\ Key.stats \in DOMAIN san.in.v
  /\ san.in.v[Key.stats].t = "object"
  /\ Key.mtu \in DOMAIN san.in.v[Key.stats].v
  /\ san.in.v[Key.stats].v[Key.mtu].t = "NaN"
  /\ san.out.v[Key.stats].v[Key.mtu] = Js("number", 1500)
  /\ san.out.v[Key.stats].v[Key.rxByte] = Js("number", 7)

\* C23: an array result of executeCommand becomes an array of the same
\* length whose elements are the normalized elements, and an array that
\* is a field of a record becomes an array of the same length
C23_ArraysElementwise ==
  san.pc = "done" =>
    /\ (san.via = "execute" /\ san.in.t = "array") =>
         /\ san.out.t = "array"
         /\ Len(san.out.v) = Len(san.in.v)
         /\ \A i \in DOMAIN san.in.v : san.out.v[i] = sanitizeObjectValues(san.in.v[i])
    /\ san.in.t = "object" =>
         \A k \in DOMAIN san.in.v :
           san.in.v[k].t = "array" =>
             /\ san.out.v[k].t = "array"
             /\ DOMAIN san.out.v[k].v = 1..Len(san.in.v[k].v)

\* a setTimeout callback of object c runs in this step
TimerRuns(c) ==
  \/ objs[c].stale /\ ~objs'[c].stale
  \/ objs[c].tcur /\ ~objs'[c].tcur

\* C24: a timer that fires on a client whose last connect() won its race
\* and whose session is open neither closes that session nor detaches it
\* from the client
C24_TimerSparesWinner ==
  [][\A c \in DOMAIN objs :
       (/\ TimerRuns(c)
        /\ objs[c].race = "won" /\ objs[c].sess = "open" /\ objs[c].client) =>
          /\ objs'[c].sess = "open"
          /\ objs'[c].client]_vars

\* the place of a query in a collect cycle
Rank(q) ==
  CASE q = "m_res" -> 1 [] q = "i_q" -> 2 [] q = "w_q" -> 3 [] q = "w_reg" -> 4
    [] q = "cap_q" -> 5 [] q = "rc_q" -> 6

\* C25: the queries a collect cycle has sent are in the order resource,
\* interfaces, wireless, controller role, none of them sent while the
\* cycle waits for connect(); and when a query other than the resource
\* query has been sent, the resource query was the first, its answer is
\* held and the cycle has appended its MetricSample and stored the device
\* online
C25_QueryOrder ==
  \A t \in Tasks :
    LET q == task[t].qlog
    IN /\ \A i, j \in DOMAIN q : i < j => Rank(q[i]) < Rank(q[j])
       /\ q # <<>> => task[t].op = "collect" /\ task[t].pc # "c_race"
       /\ (\E i \in DOMAIN q : Rank(q[i]) > 1) =>
            /\ q[1] = "m_res"
            /\ task[t].snap \in Snapshots
            /\ task[t].nsm = 1
            /\ task[t].online = "true"
            /\ \E k \in DOMAIN metrics : metrics[k] = MetricOf(task[t].dev, task[t].snap)

C25_Witness ==
  \E t \in Tasks :
    /\ task[t].pc = "done" /\ task[t].ret = "true"
    /\ task[t].qlog = <<"m_res", "i_q", "w_q", "cap_q", "rc_q">>

\* the controller probe of task t fails in this step: its query is
\* rejected, or collectCapsmanStats is entered and executeCommand throws
\* without sending it
CapsProbeFails(t) ==
  \/ task[t].pc = "cap_q" /\ task'[t].xerr = task[t].xerr + 1
  \/ /\ task[t].subs < 3 /\ task'[t].subs = 3
     /\ clients[task'[t].dev] # 0
     /\ \A i \in DOMAIN task'[t].qlog : task'[t].qlog[i] # "cap_q"

\* C28: a step in which the controller probe fails with an error leaves
\* the stored hasCAPsMAN of the device as it was
C28_FailedProbeKeepsRole ==
  [][\A t \in Tasks :
       (CapsProbeFails(t) /\ task'[t].dev \in DOMAIN devices) =>
          devices'[task'[t].dev].hasCAPsMAN = devices[task'[t].dev].hasCAPsMAN]_vars

\* every query of the cycle was sent and answered
AllAnswered(tr) ==
  /\ tr.ret = "true" /\ tr.xerr = 0 /\ tr.subs = 3 /\ tr.nsm = 1
  /\ \A q \in {"m_res", "i_q", "w_q", "cap_q"} : \E i \in DOMAIN tr.qlog : tr.qlog[i] = q

\* C29: a collect cycle that returns true with every query answered, and
\* in which every interface, wireless interface and remote CAP it handled
\* had a stored record with the observed state, has created no alert; and
\* the stored alerts grow only in a step of a cycle that logs an alert
C29_QuietCycle ==
  [][/\ \A t \in Tasks :
          (/\ Returns(t) /\ task'[t].op = "collect" /\ AllAnswered(task'[t])
           /\ \A i \in DOMAIN task'[t].seen :
                task'[t].seen[i].found /\ task'[t].seen[i].was = task'[t].seen[i].now) =>
             /\ task'[t].alog = <<>>
             /\ task'[t].emitted = <<>>
     /\ alerts' # alerts =>
          /\ Len(alerts') = Len(alerts) + 1
          /\ \E t \in Tasks : Len(task'[t].alog) = Len(task[t].alog) + 1]_vars

C29_Witness ==
  \E t \in Tasks :
    /\ task[t].pc = "done" /\ AllAnswered(task[t])
    /\ task[t].alog = <<>>
    /\ \E i \in DOMAIN task[t].seen : task[t].seen[i].table = "interface"
    /\ \E i \in DOMAIN task[t].seen : task[t].seen[i].table = "wireless"
    /\ \E i \in DOMAIN task[t].seen : task[t].seen[i].table = "capsmanAP"
    /\ \A i \in DOMAIN task[t].seen :
         task[t].seen[i].found /\ task[t].seen[i].was = task[t].seen[i].now

\* the n-th combination of the cascade: port outermost, username in the
\* middle, password innermost
Cascade(n) ==
  [port |-> Ports[((n - 1) \div 15) + 1],
   username |-> Usernames[(((n - 1) % 15) \div 5) + 1],
   password |-> Passwords[((n - 1) % 5) + 1]]

\* C26: the combinations a probe has called connect() with are the first
\* ones of the cascade, in its order and at most 60; a combination is tried
\* only when no other is in progress; and a probe that returned a
\* descriptor returned the port and the credentials of the last
\* combination it tried, whose resource query had answered
C26_Cascade ==
  /\ Len(probe.tried) <= 60
  /\ \A n \in DOMAIN probe.tried : probe.tried[n] = Cascade(n)
  /\ Len(probe.sessions) \in {Len(probe.tried), Len(probe.tried) - 1}
  /\ probe.pc \notin {"idle", "done"} => Len(probe.sessions) = Len(probe.tried) - 1
  /\ (probe.pc = "done" /\ probe.ret.found) =>
       /\ probe.resources
       /\ [port |-> probe.ret.port, username |-> probe.ret.username,
           password |-> probe.ret.password] = probe.tried[Len(probe.tried)]
  /\ (probe.pc = "done" /\ ~probe.ret.found) => Len(probe.tried) = 60

\* the probe returned on port 8729 with admin / admin after 16 failures
C26_Witness ==
  /\ probe.pc = "done"
  /\ probe.ret = [found |-> TRUE, port |-> 8729, username |-> "admin", password |-> "admin"]
  /\ Len(probe.tried) = 17

\* C27: when a probe has returned, the session of every client it created
\* has been closed and no client holds a session; and a probe leaves the
\* map of clients empty
C27_ProbeClosesSessions ==
  /\ probe.pc = "done" =>
       /\ Len(probe.sessions) = Len(probe.tried)
       /\ \A i \in DOMAIN probe.sessions : probe.sessions[i] = "closed"
       /\ ~probe.cur.client
  /\ \A i \in DOMAIN probe.sessions : probe.sessions[i] = "closed"
  /\ \A d \in DeviceIds : clients[d] = 0

\* the probe returned null after a combination had connected and its
\* resource query was rejected; every session is closed
C27_Witness ==
  /\ probe.pc = "done"
  /\ ~probe.ret.found
  /\ Len(probe.sessions) = 60
  /\ probe.cur.results = <<TRUE>>
====
